---------------------------- MODULE Spec2Model ----------------------------
(* Personal finance tracker: the receipt asset handling of app/utils.py    *)
(* and the request handlers and dashboard aggregation of app/routes.py.    *)
(* File names are sequences of one-character strings; the tokens str(id),  *)
(* the 8 hex digits of a uuid and "_thumb" are carried as single elements. *)
(* Amounts are whole cents.                                                *)
EXTENDS Integers, Sequences, FiniteSets, TLC

VARIABLES transactions, nextId, files, dirs, now, resp, reqs

vars == <<transactions, nextId, files, dirs, now, resp, reqs>>

(* ------------------------------ bounds -------------------------------- *)

\* rows ever inserted into the transaction table
MaxTx == 2
\* rows already in the table when the aggregation specification starts
MaxSeed == 1
\* distinct values uuid4().hex[:8] can take
NumHex == 2
\* files on disk beyond which save_receipt_file is not handed a new upload
MaxFiles == 1
\* requests the server works on at the same time
MaxReq == 2

\* Python's None for a receipt reference (falsy, like the empty string)
None == <<>>
Users == {1, 2}
Hex == {"h" \o ToString(i) : i \in 1..NumHex}

(* ------------------------- strings (utils.py) ------------------------- *)

RECURSIVE LastIndexOf(_, _)
\* str.rfind: the last position of c in s, 0 when absent
LastIndexOf(s, c) ==
    IF s = <<>> THEN 0
    ELSE IF s[Len(s)] = c THEN Len(s)
    ELSE LastIndexOf(SubSeq(s, 1, Len(s) - 1), c)

\* str.lower on one character
LowerChar(c) ==
    CASE c = "P" -> "p" [] c = "N" -> "n" [] c = "G" -> "g" [] c = "J" -> "j"
      [] c = "D" -> "d" [] c = "F" -> "f" [] c = "E" -> "e" [] c = "A" -> "a"
      [] c = "X" -> "x"
      [] OTHER -> c

\* str.lower
Lower(s) == [i \in 1..Len(s) |-> LowerChar(s[i])]

ALLOWED_EXTENSIONS ==
    {<<"p", "n", "g">>, <<"j", "p", "g">>, <<"j", "p", "e", "g">>, <<"p", "d", "f">>}

\* allowed_file without the extension test: any name with a dot passes
allowed_file_any_dot(filename) == LastIndexOf(filename, ".") > 0

\* '.' in filename and filename.rsplit('.', 1)[1].lower() in ALLOWED_EXTENSIONS
allowed_file(filename) ==
    LET dot == LastIndexOf(filename, ".") IN
    /\ dot > 0
    /\ Lower(SubSeq(filename, dot + 1, Len(filename))) \in ALLOWED_EXTENSIONS

\* characters werkzeug keeps: [A-Za-z0-9_.-]
SafeChars ==
    {"a", "b", "r", "p", "n", "g", "j", "d", "f", "e", "x",
     "A", "P", "N", "G", "J", "D", "F", "E", "X", "1", "2", "_", ".", "-"}
AsciiChars == SafeChars \cup {"/", " "}

IsAscii(c) == c \in AsciiChars
IsSafe(c) == c \in SafeChars

RECURSIVE JoinWords(_)
\* "_".join(s.split()): runs of whitespace become one "_", none at the ends
JoinWords(s) ==
    IF s = <<>> THEN <<>>
    ELSE IF Head(s) = " " THEN JoinWords(Tail(s))
    ELSE LET rest == Tail(s)
             gap == rest # <<>> /\ Head(rest) = " "
             tailHasWord == \E i \in 1..Len(rest) : rest[i] # " "
         IN <<Head(s)>>
            \o (IF gap /\ tailHasWord THEN <<"_">> ELSE <<>>)
            \o JoinWords(rest)

RECURSIVE StripLeft(_)
StripLeft(s) ==
    IF s # <<>> /\ Head(s) \in {".", "_"} THEN StripLeft(Tail(s)) ELSE s

RECURSIVE StripRight(_)
StripRight(s) ==
    IF s # <<>> /\ s[Len(s)] \in {".", "_"}
    THEN StripRight(SubSeq(s, 1, Len(s) - 1)) ELSE s

\* werkzeug.utils.secure_filename: drop non-ASCII, path separators to spaces,
\* whitespace runs to "_", drop unsafe characters, strip "." and "_" at the ends
secure_filename(filename) ==
    LET ascii == SelectSeq(filename, IsAscii)
        nosep == [i \in 1..Len(ascii) |-> IF ascii[i] = "/" THEN " " ELSE ascii[i]]
        joined == JoinWords(nosep)
        safe == SelectSeq(joined, IsSafe)
    IN StripRight(StripLeft(safe))

\* os.path.splitext: the extension starts at the last dot, unless only dots
\* precede it
splitext(p) ==
    LET dot == LastIndexOf(p, ".")
        lead == \A i \in 1..(dot - 1) : p[i] = "."
    IN IF dot = 0 \/ lead
       THEN [name |-> p, ext |-> <<>>]
       ELSE [name |-> SubSeq(p, 1, dot - 1), ext |-> SubSeq(p, dot, Len(p))]

(* --------------------------- the file system -------------------------- *)

\* os.path.join(UPLOAD_FOLDER, str(user_id)) and its thumbnails subdirectory
user_upload_dir(user_id) == <<ToString(user_id)>>
thumb_dir(user_id) == <<ToString(user_id), "thumbnails">>

\* os.path.join(directory, name)
os_path_join(dir, name) == [dir |-> dir, name |-> name]

os_path_exists(fs, path) == path \in fs

\* os.remove: FileNotFoundError when the path is absent
os_remove(fs, path) == [files |-> fs \ {path}, raised |-> path \notin fs]

\* the removal without the existence test
remove_unchecked(fs, path) == os_remove(fs, path)

\* if os.path.exists(path): os.remove(path)
remove_if_exists(fs, path) ==
    IF os_path_exists(fs, path) THEN os_remove(fs, path)
    ELSE [files |-> fs, raised |-> FALSE]

\* os.makedirs(d, exist_ok=True): d and its parents
os_makedirs(ds, d) == ds \cup {SubSeq(d, 1, k) : k \in 1..Len(d)}

\* what can go wrong while the original is stored: os.makedirs raises, file.save
\* raises before the file exists, file.save raises with part of it written
IoFaults == {"makedirs", "save_open", "save_write"}

\* what can go wrong while a thumbnail is made
ThumbFaults == {"none", "decode", "mkdir", "write"}

\* name, ext = os.path.splitext(filename); f"{name}_thumb{ext}"
thumb_filename(filename) ==
    LET parts == splitext(filename) IN parts.name \o <<"_thumb">> \o parts.ext

\* create_thumbnail: every exception is caught and printed
create_thumbnail(fs, ds, user_id, filename, fault) ==
    LET thumb_path == os_path_join(thumb_dir(user_id), thumb_filename(filename))
    IN CASE fault = "decode" -> [files |-> fs, dirs |-> ds, printed |-> TRUE]
         [] fault = "mkdir" -> [files |-> fs, dirs |-> ds, printed |-> TRUE]
         [] fault = "write" ->
              [files |-> fs, dirs |-> os_makedirs(ds, thumb_dir(user_id)), printed |-> TRUE]
         [] OTHER ->
              [files |-> fs \cup {thumb_path},
               dirs |-> os_makedirs(ds, thumb_dir(user_id)), printed |-> FALSE]

IMAGE_EXTS == {<<".", "p", "n", "g">>, <<".", "j", "p", "g">>, <<".", "j", "p", "e", "g">>}

\* an uploaded FileStorage is truthy when its filename is not empty
NoFile == [filename |-> <<>>]
Truthy(file) == file.filename # <<>>

\* save_receipt_file with a thumbnail error treated as a failed store: the
\* original is taken back and no name is returned
save_receipt_file_strict(fs, ds, file, user_id, hex, fault) ==
    IF Truthy(file) /\ allowed_file(file.filename)
    THEN LET ext == splitext(secure_filename(file.filename)).ext
             unique_filename == <<ToString(user_id), "_", hex>> \o ext
             ds1 == os_makedirs(ds, user_upload_dir(user_id))
             fs1 == fs \cup {os_path_join(user_upload_dir(user_id), unique_filename)}
             th == IF Lower(ext) \in IMAGE_EXTS
                   THEN create_thumbnail(fs1, ds1, user_id, unique_filename, fault)
                   ELSE [files |-> fs1, dirs |-> ds1, printed |-> FALSE]
         IN IF th.printed
            THEN [ret |-> None, files |-> fs, dirs |-> th.dirs, printed |-> TRUE,
                  raised |-> FALSE]
            ELSE [ret |-> unique_filename, files |-> th.files, dirs |-> th.dirs,
                  printed |-> FALSE, raised |-> FALSE]
    ELSE [ret |-> None, files |-> fs, dirs |-> ds, printed |-> FALSE, raised |-> FALSE]

\* save_receipt_file with the errors of os.makedirs and file.save caught: the
\* name is returned although the file may not be there
save_receipt_file_swallowing(fs, ds, file, user_id, hex, fault) ==
    IF Truthy(file) /\ allowed_file(file.filename)
    THEN [ret |-> <<ToString(user_id), "_", hex>>
                      \o splitext(secure_filename(file.filename)).ext,
          files |-> fs, dirs |-> ds, printed |-> FALSE, raised |-> FALSE]
    ELSE [ret |-> None, files |-> fs, dirs |-> ds, printed |-> FALSE, raised |-> FALSE]

\* save_receipt_file: the name returned (None when nothing is stored), the
\* files and directories afterwards, whether a thumbnail error was printed and
\* whether an exception left the function
save_receipt_file(fs, ds, file, user_id, hex, fault) ==
    IF Truthy(file) /\ allowed_file(file.filename)
    THEN LET filename == secure_filename(file.filename)
             ext == splitext(filename).ext
             unique_filename == <<ToString(user_id), "_", hex>> \o ext
             ds1 == os_makedirs(ds, user_upload_dir(user_id))
             file_path == os_path_join(user_upload_dir(user_id), unique_filename)
             fs1 == fs \cup {file_path}
             th == IF Lower(ext) \in IMAGE_EXTS
                   THEN create_thumbnail(fs1, ds1, user_id, unique_filename, fault)
                   ELSE [files |-> fs1, dirs |-> ds1, printed |-> FALSE]
         IN CASE fault = "makedirs" ->
                   [ret |-> None, files |-> fs, dirs |-> ds, printed |-> FALSE,
                    raised |-> TRUE]
              [] fault = "save_open" ->
                   [ret |-> None, files |-> fs, dirs |-> ds1, printed |-> FALSE,
                    raised |-> TRUE]
              [] fault = "save_write" ->
                   [ret |-> None, files |-> fs1, dirs |-> ds1, printed |-> FALSE,
                    raised |-> TRUE]
              [] OTHER ->
                   [ret |-> unique_filename, files |-> th.files, dirs |-> th.dirs,
                    printed |-> th.printed, raised |-> FALSE]
    ELSE [ret |-> None, files |-> fs, dirs |-> ds, printed |-> FALSE, raised |-> FALSE]

(* ----------------------------- data model ----------------------------- *)

\* the clock's instants, in order, with the calendar month each falls in
Clock == <<[year |-> 2024, month |-> 1], [year |-> 2024, month |-> 2]>>
Instants == 1..Len(Clock)

\* effective dates a form can carry (the day of the month is not modelled)
Dates == {[year |-> 2024, month |-> 1], [year |-> 2024, month |-> 2],
          [year |-> 2025, month |-> 1]}
NoDate == [year |-> 0, month |-> 0]

\* the Category table: the rows register() seeds for each user (two of the
\* eight defaults), keyed by id
Category ==
    [c \in 1..4 |->
        [name |-> IF c % 2 = 1 THEN "Food & Dining" ELSE "Transportation",
         user_id |-> (c + 1) \div 2]]

\* SQL NULL in Transaction.category_id
NullCategory == 0 - 1

\* form.category_id.choices: the ids of the user's categories
category_choices(user_id) == {c \in DOMAIN Category : Category[c].user_id = user_id}

TransactionTypes == {"income", "expense"}

\* NumberRange(min=0.01), in cents
MIN_AMOUNT == 1

\* FileAllowed(['jpg', 'jpeg', 'png', 'pdf']): the lowered name ends in "." + ext
FileAllowed(filename) ==
    \E e \in ALLOWED_EXTENSIONS :
        LET suffix == <<".">> \o e
            low == Lower(filename)
        IN /\ Len(low) >= Len(suffix)
           /\ SubSeq(low, Len(low) - Len(suffix) + 1, Len(low)) = suffix

\* the form check that looks at the amount alone
validate_amount_only(form, user_id) == form.amount >= MIN_AMOUNT

\* TransactionForm.validate_on_submit for a POST
validate_on_submit(form, user_id) ==
    /\ form.amount >= MIN_AMOUNT
    /\ form.description # ""
    /\ form.transaction_type \in TransactionTypes
    /\ form.category_id \in category_choices(user_id)
    /\ form.date # NoDate
    /\ (Truthy(form.receipt) => FileAllowed(form.receipt.filename))

\* the rows of one user: Transaction.query.filter_by(user_id=...)
rows_of(tx, user_id) == {i \in DOMAIN tx : tx[i].user_id = user_id}

\* the table with row id set to row
put_row(tx, id, row) ==
    [i \in DOMAIN tx \cup {id} |-> IF i = id THEN row ELSE tx[i]]

\* the table without row id
drop_row(tx, id) == [i \in DOMAIN tx \ {id} |-> tx[i]]

(* --------------------------- request handlers ------------------------- *)

\* what a request leaves behind: the table, the disk and the response
Outcome(tx, nid, fs, ds, status, printed) ==
    [transactions |-> tx, nextId |-> nid, files |-> fs, dirs |-> ds,
     status |-> status, printed |-> printed]

Unchanged(status) == Outcome(transactions, nextId, files, dirs, status, FALSE)

\* the row lookup without the owner filter
owned_by_anyone(transaction_id, user_id) == transaction_id \in DOMAIN transactions

\* Transaction.query.filter_by(id=..., user_id=current_user.id).first_or_404()
owned(transaction_id, user_id) ==
    /\ transaction_id \in DOMAIN transactions
    /\ transactions[transaction_id].user_id = user_id

\* add_transaction (POST)
add_transaction_result(user_id, form, hex, fault) ==
    IF validate_on_submit(form, user_id)
    THEN LET saved == IF Truthy(form.receipt)
                      THEN save_receipt_file(files, dirs, form.receipt, user_id, hex, fault)
                      ELSE [ret |-> None, files |-> files, dirs |-> dirs, printed |-> FALSE,
                            raised |-> FALSE]
             transaction ==
                 [amount |-> form.amount,
                  description |-> form.description,
                  transaction_type |-> form.transaction_type,
                  date |-> form.date,
                  category_id |-> IF form.category_id # 0 THEN form.category_id
                                  ELSE NullCategory,
                  receipt_filename |-> saved.ret,
                  notes |-> form.notes,
                  user_id |-> user_id,
                  created_at |-> now]
         IN IF saved.raised
            THEN Outcome(transactions, nextId, saved.files, saved.dirs, "error", FALSE)
            ELSE Outcome(put_row(transactions, nextId, transaction), nextId + 1,
                         saved.files, saved.dirs, "redirect", saved.printed)
    ELSE Unchanged("form")

\* edit_transaction, lines 186-189: the old original is removed when present
remove_old_receipt(fs, user_id, receipt_filename) ==
    IF receipt_filename # None
    THEN remove_if_exists(fs, os_path_join(user_upload_dir(user_id), receipt_filename))
    ELSE [files |-> fs, raised |-> FALSE]

\* edit_transaction saving the submission as if the row were new: without an
\* upload the reference is dropped, and the creation time is set again
edit_transaction_as_new(user_id, transaction_id, form, hex, fault) ==
    IF ~owned(transaction_id, user_id) THEN Unchanged("404")
    ELSE IF ~validate_on_submit(form, user_id) THEN Unchanged("form")
    ELSE LET saved == IF Truthy(form.receipt)
                      THEN save_receipt_file(files, dirs, form.receipt, user_id, hex, fault)
                      ELSE [ret |-> None, files |-> files, dirs |-> dirs,
                            printed |-> FALSE, raised |-> FALSE]
             row == [amount |-> form.amount, description |-> form.description,
                     transaction_type |-> form.transaction_type, date |-> form.date,
                     category_id |-> form.category_id, receipt_filename |-> saved.ret,
                     notes |-> form.notes, user_id |-> user_id, created_at |-> now]
         IN Outcome(put_row(transactions, transaction_id, row), nextId,
                    saved.files, saved.dirs, "redirect", saved.printed)

\* edit_transaction (POST)
edit_transaction_result(user_id, transaction_id, form, hex, fault) ==
    IF ~owned(transaction_id, user_id) THEN Unchanged("404")
    ELSE IF ~validate_on_submit(form, user_id) THEN Unchanged("form")
    ELSE LET transaction == transactions[transaction_id]
             removed == IF Truthy(form.receipt)
                        THEN remove_old_receipt(files, user_id, transaction.receipt_filename)
                        ELSE [files |-> files, raised |-> FALSE]
             saved == IF Truthy(form.receipt)
                      THEN save_receipt_file(removed.files, dirs, form.receipt, user_id, hex, fault)
                      ELSE [ret |-> transaction.receipt_filename, files |-> files,
                            dirs |-> dirs, printed |-> FALSE, raised |-> FALSE]
             edited ==
                 [transaction EXCEPT
                     !.receipt_filename = saved.ret,
                     !.amount = form.amount,
                     !.description = form.description,
                     !.transaction_type = form.transaction_type,
                     !.date = form.date,
                     !.category_id = IF form.category_id # 0 THEN form.category_id
                                     ELSE NullCategory,
                     !.notes = form.notes]
         IN IF removed.raised
            THEN Outcome(transactions, nextId, removed.files, dirs, "error", FALSE)
            ELSE IF saved.raised
            THEN Outcome(transactions, nextId, saved.files, saved.dirs, "error", FALSE)
            ELSE Outcome(put_row(transactions, transaction_id, edited), nextId,
                         saved.files, saved.dirs, "redirect", saved.printed)

\* delete_transaction, lines 215-223: the original, then the thumbnail path
remove_receipt_files(fs, user_id, receipt_filename) ==
    IF receipt_filename # None
    THEN LET file_path == os_path_join(user_upload_dir(user_id), receipt_filename)
             thumb_path == os_path_join(thumb_dir(user_id), receipt_filename)
             first == remove_if_exists(fs, file_path)
             second == remove_if_exists(first.files, thumb_path)
         IN IF first.raised THEN first ELSE second
    ELSE [files |-> fs, raised |-> FALSE]

\* delete_transaction (POST)
delete_transaction_result(user_id, transaction_id) ==
    IF ~owned(transaction_id, user_id) THEN Unchanged("404")
    ELSE LET removed == remove_receipt_files(files, user_id,
                            transactions[transaction_id].receipt_filename)
         IN IF removed.raised
            THEN Outcome(transactions, nextId, removed.files, dirs, "error", FALSE)
            ELSE Outcome(drop_row(transactions, transaction_id), nextId,
                         removed.files, dirs, "redirect", FALSE)

\* download_receipt: 404, a flashed message with a redirect, or the file
download_receipt_result(user_id, transaction_id) ==
    IF ~owned(transaction_id, user_id) THEN "404"
    ELSE LET receipt_filename == transactions[transaction_id].receipt_filename
             file_path == os_path_join(user_upload_dir(user_id), receipt_filename)
         IN IF receipt_filename = None THEN "no_receipt"
            ELSE IF ~os_path_exists(files, file_path) THEN "file_not_found"
            ELSE "send_file"

(* ------------------------ dashboard aggregation ----------------------- *)

RECURSIVE sum_amounts(_, _)
\* the total of the amounts of the rows ids of table tx
sum_amounts(tx, ids) ==
    IF ids = {} THEN 0
    ELSE LET i == CHOOSE j \in ids : TRUE
         IN tx[i].amount + sum_amounts(tx, ids \ {i})

\* func.sum(Transaction.amount) ... .scalar(): NULL (no value) over no rows
sql_sum(tx, ids) == IF ids = {} THEN {} ELSE {sum_amounts(tx, ids)}

\* scalar() or 0
or_0(scalar) == IF scalar = {} THEN 0 ELSE CHOOSE v \in scalar : TRUE

current_month == Clock[now].month
current_year == Clock[now].year

\* the monthly filter without the year
monthly_rows_any_year(user_id, transaction_type) ==
    {i \in DOMAIN transactions :
        /\ transactions[i].user_id = user_id
        /\ transactions[i].transaction_type = transaction_type
        /\ transactions[i].date.month = current_month}

\* filter_by(user_id, transaction_type) and extract('month'/'year', date)
monthly_rows(user_id, transaction_type) ==
    {i \in DOMAIN transactions :
        /\ transactions[i].user_id = user_id
        /\ transactions[i].transaction_type = transaction_type
        /\ transactions[i].date.month = current_month
        /\ transactions[i].date.year = current_year}

monthly_income(user_id) == or_0(sql_sum(transactions, monthly_rows(user_id, "income")))

monthly_expenses(user_id) == or_0(sql_sum(transactions, monthly_rows(user_id, "expense")))

\* the breakdown over an outer join: rows without a category form a group
category_expenses_outer(user_id) ==
    LET rows == monthly_rows(user_id, "expense")
        name_of(i) == IF transactions[i].category_id \in DOMAIN Category
                      THEN Category[transactions[i].category_id].name ELSE "None"
    IN {<<n, sum_amounts(transactions, {i \in rows : name_of(i) = n})>> :
            n \in {name_of(i) : i \in rows}}

\* query(Category.name, func.sum(Transaction.amount)).join(Transaction)
\* ... .group_by(Category.name): the joined rows, grouped by category name
category_expenses(user_id) ==
    LET joined == {i \in monthly_rows(user_id, "expense") :
                      transactions[i].category_id \in DOMAIN Category}
        name_of(i) == Category[transactions[i].category_id].name
    IN {<<n, sum_amounts(transactions, {i \in joined : name_of(i) = n})>> :
            n \in {name_of(i) : i \in joined}}

RECURSIVE balance_fold(_, _)
\* income minus expenses over the rows tx[order[1]], tx[order[2]], ...
balance_fold(tx, order) ==
    IF order = <<>> THEN 0
    ELSE LET t == tx[Head(order)]
         IN (IF t.transaction_type = "income" THEN t.amount ELSE 0 - t.amount)
            + balance_fold(tx, Tail(order))

RECURSIVE in_id_order(_)
\* the ids of a set as a sequence, smallest first
in_id_order(ids) ==
    IF ids = {} THEN <<>>
    ELSE LET m == CHOOSE i \in ids : \A j \in ids : i <= j
         IN <<m>> \o in_id_order(ids \ {m})

\* the balance over the rows of every user
get_balance_all_users(user_id) ==
    balance_fold(transactions, in_id_order(DOMAIN transactions))

\* User.get_balance over user.transactions
get_balance(user_id) ==
    balance_fold(transactions, in_id_order(rows_of(transactions, user_id)))

\* create_test_data's summary: sum of income amounts minus sum of expense amounts
summary_balance(user_id) ==
    LET mine == rows_of(transactions, user_id)
        total_income == sum_amounts(transactions,
            {i \in mine : transactions[i].transaction_type = "income"})
        total_expenses == sum_amounts(transactions,
            {i \in mine : transactions[i].transaction_type = "expense"})
    IN total_income - total_expenses

(* ------------------------------- actions ------------------------------ *)

\* the ids a request can name
TxIds == 1..MaxTx

Response(op, status) == [op |-> op, status |-> status]

\* the requests being worked on, by worker: none
Workers == 1..MaxReq
Idle == [pc |-> "idle"]
NoRequests == [w \in Workers |-> Idle]

\* the handler's outcome becomes the state, its status the response
Commit(outcome, op) ==
    \E o \in {outcome} :
        /\ transactions' = o.transactions
        /\ nextId' = o.nextId
        /\ files' = o.files
        /\ dirs' = o.dirs
        /\ resp' = Response(op, o.status)
        /\ UNCHANGED <<now, reqs>>

add_transaction(user_id, form, hex, fault) ==
    /\ nextId <= MaxTx
    /\ Commit(add_transaction_result(user_id, form, hex, fault), "add_transaction")

edit_transaction(user_id, transaction_id, form, hex, fault) ==
    /\ transaction_id \in Nat
    /\ Commit(edit_transaction_result(user_id, transaction_id, form, hex, fault),
              "edit_transaction")

delete_transaction(user_id, transaction_id) ==
    /\ transaction_id \in Nat
    /\ Commit(delete_transaction_result(user_id, transaction_id), "delete_transaction")

download_receipt(user_id, transaction_id) ==
    /\ resp' = Response("download_receipt", download_receipt_result(user_id, transaction_id))
    /\ UNCHANGED <<transactions, nextId, files, dirs, now, reqs>>

\* time passes between requests
Tick ==
    /\ now < Len(Clock)
    /\ now' = now + 1
    /\ UNCHANGED <<transactions, nextId, files, dirs, resp, reqs>>

\* save_receipt_file called on its own
store(user_id, file, hex, fault) ==
    /\ \E saved \in {save_receipt_file(files, dirs, file, user_id, hex, fault)} :
          /\ saved.files = files \/ Cardinality(files) < MaxFiles
          /\ files' = saved.files
          /\ dirs' = saved.dirs
          /\ resp' = Response("save_receipt_file",
                              IF saved.ret = None THEN "none"
                              ELSE IF saved.printed THEN "stored_no_thumbnail"
                              ELSE "stored")
    /\ UNCHANGED <<transactions, nextId, now, reqs>>

\* the removal steps of delete_transaction run on their own
delete(user_id, receipt_filename) ==
    /\ \E removed \in {remove_receipt_files(files, user_id, receipt_filename)} :
          /\ files' = removed.files
          /\ resp' = Response("delete",
                              IF removed.raised THEN "raised"
                              ELSE IF removed.files = files THEN "absent"
                              ELSE "removed")
    /\ UNCHANGED <<transactions, nextId, dirs, now, reqs>>

\* the removal step of edit_transaction run on its own
delete_old(user_id, receipt_filename) ==
    /\ \E removed \in {remove_old_receipt(files, user_id, receipt_filename)} :
          /\ files' = removed.files
          /\ resp' = Response("delete_old",
                              IF removed.raised THEN "raised"
                              ELSE IF removed.files = files THEN "absent"
                              ELSE "removed")
    /\ UNCHANGED <<transactions, nextId, dirs, now, reqs>>

(* ------------------------------- inputs ------------------------------- *)

Name(chars) == [filename |-> chars]

A_PNG == Name(<<"a", ".", "p", "n", "g">>)
A_JPG_UPPER == Name(<<"a", ".", "J", "P", "G">>)
A_PDF == Name(<<"a", ".", "p", "d", "f">>)
DOT_PNG == Name(<<".", "p", "n", "g">>)
A_EXE == Name(<<"a", ".", "e", "x", "e">>)
A_PNG_EXE == Name(<<"a", ".", "p", "n", "g", ".", "e", "x", "e">>)
NO_EXT == Name(<<"p", "n", "g">>)

\* uploads tried through the forms of the receipt specification
FormFiles == {NoFile, A_PNG, A_PDF, DOT_PNG, A_EXE}

\* files handed to save_receipt_file directly
StoreFiles == {NoFile, A_PNG, A_JPG_UPPER, A_PDF, DOT_PNG, A_EXE, A_PNG_EXE, NO_EXT}

\* the names save_receipt_file can return for a user
ReceiptNames(user_id) ==
    {save_receipt_file({}, {}, f, user_id, h, "none").ret : f \in StoreFiles, h \in Hex}
        \ {None}

BaseForm(user_id) ==
    [amount |-> 100, description |-> "d", transaction_type |-> "expense",
     date |-> Clock[1], category_id |-> CHOOSE c \in category_choices(user_id) : TRUE,
     receipt |-> NoFile, notes |-> ""]

\* forms of the receipt specification: one per upload, A_EXE failing validation
ReceiptForms(user_id) ==
    {[BaseForm(user_id) EXCEPT !.receipt = f] : f \in FormFiles}

Amounts == {100, 250}

\* forms of the aggregation specification: no upload
AggForms(user_id) ==
    {[BaseForm(user_id) EXCEPT !.amount = a, !.transaction_type = t, !.date = d,
                               !.category_id = c] :
        a \in Amounts, t \in TransactionTypes, d \in Dates,
        c \in category_choices(user_id)}
        \cup {[BaseForm(user_id) EXCEPT !.date = NoDate]}

\* rows already in the table: any owner, amount, type, date and category,
\* the category possibly NULL
SeedRows ==
    [amount : Amounts, description : {"d"}, transaction_type : TransactionTypes,
     date : Dates, category_id : {NullCategory}, receipt_filename : {None},
     notes : {""}, user_id : Users, created_at : {1}]

(* ---------------------------- specifications -------------------------- *)

Init ==
    /\ transactions = <<>>
    /\ nextId = 1
    /\ files = {}
    /\ dirs = {}
    /\ now = 1
    /\ resp = Response("none", "none")
    /\ reqs = NoRequests

\* what accompanies a submitted form: the uuid drawn, which matters only when
\* the upload is stored, and the thumbnail fault, only when one is attempted
Draws(form) ==
    LET name == form.receipt.filename
        stored == Truthy(form.receipt) /\ allowed_file(name)
        image == stored /\ Lower(splitext(secure_filename(name)).ext) \in IMAGE_EXTS
    IN (IF stored THEN Hex ELSE {"h1"}) \X (IF image THEN ThumbFaults ELSE {"none"})

\* the submissions of a user: a form with what accompanies it
Submissions(forms) == {<<f, d[1], d[2]>> : f \in forms, d \in Hex \X ThumbFaults}
                          \cap {q \in forms \X Hex \X ThumbFaults : <<q[2], q[3]>> \in Draws(q[1])}

\* requests for a row the user does not own all end in 404: one stands for all
ForRow(user_id, transaction_id, submissions) ==
    IF owned(transaction_id, user_id) THEN submissions
    ELSE {CHOOSE q \in submissions : TRUE}

ReceiptSubmissions == [u \in Users |-> Submissions(ReceiptForms(u))]

\* the receipt life cycle through the web requests
Next ==
    \/ \E u \in Users : \E q \in ReceiptSubmissions[u] :
         add_transaction(u, q[1], q[2], q[3])
    \/ \E u \in Users, id \in TxIds :
         \E q \in ForRow(u, id, ReceiptSubmissions[u]) :
            edit_transaction(u, id, q[1], q[2], q[3])
    \/ \E u \in Users, id \in TxIds : delete_transaction(u, id)
    \/ \E u \in Users, id \in TxIds : download_receipt(u, id)

Spec == Init /\ [][Next]_vars

\* a file handed to save_receipt_file with what accompanies it
StoreCalls == {<<f, d[1], d[2]>> : f \in StoreFiles, d \in Hex \X ThumbFaults}
                  \cap {c \in StoreFiles \X Hex \X ThumbFaults :
                           <<c[2], c[3]>> \in Draws([receipt |-> c[1]])}

StoredNames == [u \in Users |-> ReceiptNames(u) \cup {None}]

\* the references a removal is requested for: no reference, every name whose
\* original is on disk, and one name whose original is not (removals of two
\* absent names leave the same disk)
RemovalNames(u) ==
    LET present == {n \in StoredNames[u] \ {None} :
                       os_path_exists(files, os_path_join(user_upload_dir(u), n))}
        absent == (StoredNames[u] \ {None}) \ present
    IN {None} \cup present
              \cup (IF absent = {} THEN {} ELSE {CHOOSE n \in absent : TRUE})

\* the asset operations called directly
NextStore ==
    \/ \E u \in Users : \E c \in StoreCalls : store(u, c[1], c[2], c[3])
    \/ \E u \in Users : \E n \in RemovalNames(u) : delete(u, n)
    \/ \E u \in Users : \E n \in RemovalNames(u) : delete_old(u, n)

SpecStore == Init /\ [][NextStore]_vars

InitAgg ==
    /\ \E k \in 0..MaxSeed : transactions \in [1..k -> SeedRows] /\ nextId = k + 1
    /\ files = {}
    /\ dirs = {}
    /\ now = 1
    /\ resp = Response("none", "none")
    /\ reqs = NoRequests

AggSubmissions == [u \in Users |-> Submissions(AggForms(u))]

\* the table under add, edit and delete without uploads, and the clock
NextAgg ==
    \/ \E u \in Users : \E q \in AggSubmissions[u] :
         add_transaction(u, q[1], q[2], q[3])
    \/ \E u \in Users, id \in TxIds :
         \E q \in ForRow(u, id, AggSubmissions[u]) :
            edit_transaction(u, id, q[1], q[2], q[3])
    \/ \E u \in Users, id \in TxIds : delete_transaction(u, id)
    \/ Tick

SpecAgg == InitAgg /\ [][NextAgg]_vars

(* ------------------------------ recent list --------------------------- *)

\* .limit(5)
RECENT_LIMIT == 5

\* the rows of ids created last
latest(tx, ids) == {i \in ids : \A j \in ids : tx[i].created_at >= tx[j].created_at}

\* the rows of ids created first
earliest(tx, ids) == {i \in ids : \A j \in ids : tx[i].created_at <= tx[j].created_at}

RECURSIVE order_by_created_at_asc(_, _, _)
\* the listing in ascending order of creation
order_by_created_at_asc(tx, ids, limit) ==
    IF ids = {} \/ limit = 0 THEN {<<>>}
    ELSE UNION {{<<m>> \o s : s \in order_by_created_at_asc(tx, ids \ {m}, limit - 1)} :
                   m \in earliest(tx, ids)}

\* the recent list with the oldest rows first
recent_transactions_oldest_first(user_id) ==
    order_by_created_at_asc(transactions, rows_of(transactions, user_id), RECENT_LIMIT)

RECURSIVE order_by_created_at_desc(_, _, _)
\* order_by(Transaction.created_at.desc()).limit(limit).all(): every list the
\* database can answer with, rows of equal created_at coming in any order
order_by_created_at_desc(tx, ids, limit) ==
    IF ids = {} \/ limit = 0 THEN {<<>>}
    ELSE UNION {{<<m>> \o s : s \in order_by_created_at_desc(tx, ids \ {m}, limit - 1)} :
                   m \in latest(tx, ids)}

\* dashboard: recent_transactions
recent_transactions(user_id) ==
    order_by_created_at_desc(transactions, rows_of(transactions, user_id), RECENT_LIMIT)

\* rows in the table before the requests observed
MaxOld == 7

\* a table of k rows inserted one after another at earlier instants: all of
\* user 1 but row other (none when 0), rows tie and tie + 1 created at the same
\* instant (none when tie is 0)
OldTable(k, tie, other) ==
    [i \in 1..k |->
        [amount |-> 100, description |-> "d", transaction_type |-> "expense",
         date |-> Clock[1],
         category_id |-> CHOOSE c \in category_choices(IF i = other THEN 2 ELSE 1) : TRUE,
         receipt_filename |-> None, notes |-> "",
         user_id |-> IF i = other THEN 2 ELSE 1,
         created_at |-> (IF i <= tie THEN i ELSE i - 1) - k]]

InitRecent ==
    /\ \E k \in 0..MaxOld : \E tie \in 0..(IF k = 0 THEN 0 ELSE k - 1), other \in 0..k :
          /\ transactions = OldTable(k, tie, other)
          /\ nextId = k + 1
    /\ files = {}
    /\ dirs = {}
    /\ now = 1
    /\ resp = Response("none", "none")
    /\ reqs = NoRequests

\* forms of the recent-list specification: the effective date varies
RecentForms(user_id) ==
    {[BaseForm(user_id) EXCEPT !.date = d] : d \in {Clock[1], [year |-> 2025, month |-> 1]}}

RecentSubmissions == [u \in Users |-> Submissions(RecentForms(u))]

OldIds == 1..MaxOld

\* a table made earlier, then additions and edits of the effective date
NextRecent ==
    \/ \E u \in Users : \E q \in RecentSubmissions[u] :
         add_transaction(u, q[1], q[2], q[3])
    \/ \E u \in Users, id \in OldIds :
         \E q \in ForRow(u, id, RecentSubmissions[u]) :
            edit_transaction(u, id, q[1], q[2], q[3])

SpecRecent == InitRecent /\ [][NextRecent]_vars

\* transactions, api_transactions: Transaction.query.filter_by(user_id=current_user.id)
transactions_listing(user_id) == rows_of(transactions, user_id)

(* --------------------------- rejected submissions --------------------- *)

\* forms with one defect each, all but the last two carrying an upload that
\* would be stored: no amount or an amount below the minimum (0), no
\* description, no type, a type that is not a choice, no date, a file name
\* with an extension that is not allowed
InvalidForms(user_id) ==
    LET base == [BaseForm(user_id) EXCEPT !.receipt = A_PNG]
    IN {[base EXCEPT !.amount = 0],
        [base EXCEPT !.description = ""],
        [base EXCEPT !.transaction_type = ""],
        [base EXCEPT !.transaction_type = "transfer"],
        [base EXCEPT !.date = NoDate],
        [base EXCEPT !.receipt = A_EXE],
        [base EXCEPT !.receipt = A_PNG_EXE]}

\* a rejected form draws no uuid and makes no thumbnail
InvalidSubmissions == [u \in Users |-> {<<f, "h1", "none">> : f \in InvalidForms(u)}]

\* the receipt life cycle with rejected submissions among the requests
NextValidation ==
    \/ Next
    \/ \E u \in Users : \E q \in InvalidSubmissions[u] :
         add_transaction(u, q[1], q[2], q[3])
    \/ \E u \in Users, id \in TxIds :
         \E q \in ForRow(u, id, InvalidSubmissions[u]) :
            edit_transaction(u, id, q[1], q[2], q[3])

SpecValidation == Init /\ [][NextValidation]_vars

(* ------------------------ requests step by step ----------------------- *)

\* a request a worker is in the middle of: the handler, who asked, the row
\* id, the next step, the receipt_filename of the row as loaded by
\* first_or_404, the submitted form, and the name save_receipt_file returned
Req(op, user_id, transaction_id, pc, receipt_filename, form, new_name) ==
    [pc |-> pc, op |-> op, user_id |-> user_id, transaction_id |-> transaction_id,
     receipt_filename |-> receipt_filename, form |-> form, new_name |-> new_name]

\* what os.remove can meet: nothing, or a file system that refuses
RemoveFaults == {"none", "denied"}

\* os.remove under a fault: PermissionError, and no file is removed
os_remove_io(fs, path, fault) ==
    IF fault = "denied" THEN [files |-> fs, raised |-> TRUE] ELSE os_remove(fs, path)

\* the exception os.remove leaves with
remove_error(fault) == IF fault = "denied" THEN "OSError" ELSE "FileNotFoundError"

\* the removal of edit_transaction put off: the old original stays on disk
edit_remove_deferred(fs, user_id, receipt_filename, fault) ==
    [files |-> fs, raised |-> fault = "denied"]

\* edit_transaction, line 189: os.remove(old_file_path)
edit_remove(fs, user_id, receipt_filename, fault) ==
    os_remove_io(fs, os_path_join(user_upload_dir(user_id), receipt_filename), fault)

\* delete_transaction, lines 218-223: os.remove(file_path), then the
\* thumbnail path is tested and removed
delete_remove(fs, user_id, receipt_filename, fault) ==
    LET first == os_remove_io(fs, os_path_join(user_upload_dir(user_id), receipt_filename),
                              fault)
    IN IF first.raised THEN first
       ELSE remove_if_exists(first.files, os_path_join(thumb_dir(user_id), receipt_filename))

\* the response is sent and the worker is free again
Finish(w, op, status) ==
    /\ resp' = Response(op, status)
    /\ reqs' = [reqs EXCEPT ![w] = Idle]

\* edit_transaction, lines 174-186: the row is looked up, the form validated
begin_edit(w, user_id, transaction_id, form) ==
    /\ reqs[w] = Idle
    /\ IF ~owned(transaction_id, user_id)
       THEN Finish(w, "edit_transaction", "404")
       ELSE IF ~validate_on_submit(form, user_id)
       THEN Finish(w, "edit_transaction", "form")
       ELSE LET old == transactions[transaction_id].receipt_filename
                pc == IF ~Truthy(form.receipt) THEN "commit"
                      ELSE IF old # None THEN "check" ELSE "save"
            IN /\ reqs' = [reqs EXCEPT ![w] =
                              Req("edit_transaction", user_id, transaction_id, pc, old,
                                  form, old)]
               /\ UNCHANGED resp
    /\ UNCHANGED <<transactions, nextId, files, dirs, now>>

\* delete_transaction, lines 212-215: the row is looked up
begin_delete(w, user_id, transaction_id) ==
    /\ reqs[w] = Idle
    /\ IF ~owned(transaction_id, user_id)
       THEN Finish(w, "delete_transaction", "404")
       ELSE LET old == transactions[transaction_id].receipt_filename
            IN /\ reqs' = [reqs EXCEPT ![w] =
                              Req("delete_transaction", user_id, transaction_id,
                                  IF old # None THEN "check" ELSE "commit", old,
                                  NoFile, None)]
               /\ UNCHANGED resp
    /\ UNCHANGED <<transactions, nextId, files, dirs, now>>

\* download_receipt, lines 233-239: the row is looked up; without a
\* reference a message is flashed
begin_download(w, user_id, transaction_id) ==
    /\ reqs[w] = Idle
    /\ IF ~owned(transaction_id, user_id)
       THEN Finish(w, "download_receipt", "404")
       ELSE IF transactions[transaction_id].receipt_filename = None
       THEN Finish(w, "download_receipt", "no_receipt")
       ELSE /\ reqs' = [reqs EXCEPT ![w] =
                           Req("download_receipt", user_id, transaction_id, "check",
                               transactions[transaction_id].receipt_filename, NoFile, None)]
            /\ UNCHANGED resp
    /\ UNCHANGED <<transactions, nextId, files, dirs, now>>

\* lines 188 and 217: if os.path.exists(path)
check_exists(w) ==
    /\ reqs[w].pc = "check"
    /\ reqs[w].op # "download_receipt"
    /\ LET r == reqs[w]
           there == os_path_exists(files, os_path_join(user_upload_dir(r.user_id),
                                                       r.receipt_filename))
           skip == IF r.op = "edit_transaction" THEN "save" ELSE "commit"
       IN reqs' = [reqs EXCEPT ![w].pc = IF there THEN "remove" ELSE skip]
    /\ UNCHANGED <<transactions, nextId, files, dirs, now, resp>>

\* download_receipt, lines 241-243: if not os.path.exists(file_path), a
\* message is flashed
check_download(w) ==
    /\ reqs[w].pc = "check"
    /\ reqs[w].op = "download_receipt"
    /\ LET r == reqs[w]
       IN IF os_path_exists(files, os_path_join(user_upload_dir(r.user_id),
                                                r.receipt_filename))
          THEN reqs' = [reqs EXCEPT ![w].pc = "send"] /\ UNCHANGED resp
          ELSE Finish(w, r.op, "file_not_found")
    /\ UNCHANGED <<transactions, nextId, files, dirs, now>>

\* download_receipt, line 245: send_file(file_path) reads the file; it raises
\* FileNotFoundError when the file is not there
send_file(w) ==
    /\ reqs[w].pc = "send"
    /\ LET r == reqs[w]
       IN IF os_path_exists(files, os_path_join(user_upload_dir(r.user_id),
                                                r.receipt_filename))
          THEN Finish(w, r.op, "send_file")
          ELSE Finish(w, r.op, "FileNotFoundError")
    /\ UNCHANGED <<transactions, nextId, files, dirs, now>>

\* lines 189 and 218-223: os.remove(path); an exception ends the request
os_remove_step(w, fault) ==
    /\ reqs[w].pc = "remove"
    /\ \E r \in {reqs[w]} :
       \E removed \in {IF r.op = "edit_transaction"
                       THEN edit_remove(files, r.user_id, r.receipt_filename, fault)
                       ELSE delete_remove(files, r.user_id, r.receipt_filename, fault)} :
          /\ files' = removed.files
          /\ IF removed.raised
             THEN Finish(w, r.op, remove_error(fault))
             ELSE /\ reqs' = [reqs EXCEPT ![w].pc =
                                 IF r.op = "edit_transaction" THEN "save" ELSE "commit"]
                  /\ UNCHANGED resp
    /\ UNCHANGED <<transactions, nextId, dirs, now>>

\* line 192: save_receipt_file; an exception ends the request
save_step(w, hex, fault) ==
    /\ reqs[w].pc = "save"
    /\ \E r \in {reqs[w]} :
       \E saved \in {save_receipt_file(files, dirs, r.form.receipt, r.user_id, hex, fault)} :
          /\ files' = saved.files
          /\ dirs' = saved.dirs
          /\ IF saved.raised
             THEN Finish(w, r.op, "OSError")
             ELSE /\ reqs' = [reqs EXCEPT ![w].pc = "commit", ![w].new_name = saved.ret]
                  /\ UNCHANGED resp
    /\ UNCHANGED <<transactions, nextId, now>>

\* the row a committed edit leaves
edited_row(row, form, receipt_filename) ==
    [row EXCEPT
        !.receipt_filename = receipt_filename,
        !.amount = form.amount,
        !.description = form.description,
        !.transaction_type = form.transaction_type,
        !.date = form.date,
        !.category_id = IF form.category_id # 0 THEN form.category_id ELSE NullCategory,
        !.notes = form.notes]

\* lines 203 and 225-226: db.session.commit(). The UPDATE of a row that is
\* gone raises StaleDataError; the DELETE of a row that is gone only warns
db_commit(w) ==
    /\ reqs[w].pc = "commit"
    /\ \E r \in {reqs[w]} :
          IF r.transaction_id \notin DOMAIN transactions
          THEN /\ Finish(w, r.op, IF r.op = "edit_transaction" THEN "StaleDataError"
                                  ELSE "redirect")
               /\ UNCHANGED transactions
          ELSE /\ transactions' =
                     IF r.op = "edit_transaction"
                     THEN put_row(transactions, r.transaction_id,
                                  edited_row(transactions[r.transaction_id], r.form,
                                             r.new_name))
                     ELSE drop_row(transactions, r.transaction_id)
               /\ Finish(w, r.op, "redirect")
    /\ UNCHANGED <<nextId, files, dirs, now>>

\* how a request that died is recorded: with the step it had not yet taken
crashed_before(pc) == "crashed before " \o pc

\* the worker dies in the middle of a request: nothing more is done for it
crash(w) ==
    /\ reqs[w] # Idle
    /\ Finish(w, reqs[w].op, crashed_before(reqs[w].pc))
    /\ UNCHANGED <<transactions, nextId, files, dirs, now>>

\* who sends the requests followed step by step, and what they upload
StepUser == 1
StepForm == [BaseForm(StepUser) EXCEPT !.receipt = A_PDF]

\* what accompanies the upload of an add_transaction: a uuid, and a store
\* that works or fails
StepDraws == Hex \X ({"none"} \cup IoFaults)

\* rows are added one request at a time; edits with a new receipt, deletes
\* and downloads are taken step by step by the workers, in any interleaving
NextSteps ==
    \/ \E d \in StepDraws : add_transaction(StepUser, StepForm, d[1], d[2])
    \/ \E w \in Workers, id \in TxIds : begin_edit(w, StepUser, id, StepForm)
    \/ \E w \in Workers, id \in TxIds : begin_delete(w, StepUser, id)
    \/ \E w \in Workers, id \in TxIds : begin_download(w, StepUser, id)
    \/ \E w \in Workers : check_exists(w)
    \/ \E w \in Workers : check_download(w)
    \/ \E w \in Workers : send_file(w)
    \/ \E w \in Workers, fault \in RemoveFaults : os_remove_step(w, fault)
    \/ \E w \in Workers, d \in StepDraws : save_step(w, d[1], d[2])
    \/ \E w \in Workers : db_commit(w)
    \/ \E w \in Workers : crash(w)

SpecSteps == Init /\ [][NextSteps]_vars

\* no edit_transaction request is being worked on
NoEditRunning == \A w \in Workers : ~(reqs[w] # Idle /\ reqs[w].op = "edit_transaction")

\* deletes in any number and at most one edit with a new receipt at a time,
\* interleaved step by step, with no crash and no failing file system
NextRace ==
    \/ \E h \in Hex : add_transaction(StepUser, StepForm, h, "none")
    \/ \E w \in Workers, id \in TxIds : NoEditRunning /\ begin_edit(w, StepUser, id, StepForm)
    \/ \E w \in Workers, id \in TxIds : begin_delete(w, StepUser, id)
    \/ \E w \in Workers : check_exists(w)
    \/ \E w \in Workers : os_remove_step(w, "none")
    \/ \E w \in Workers, h \in Hex : save_step(w, h, "none")
    \/ \E w \in Workers : db_commit(w)

SpecRace == Init /\ [][NextRace]_vars

(* -------------------------- edits without upload ---------------------- *)

\* forms of the edit specification for new rows: with or without a receipt
EditAddForms(user_id) == {[BaseForm(user_id) EXCEPT !.receipt = f] : f \in {NoFile, A_PDF}}

\* a form with no upload in which amount, description, type, date, category
\* and notes all differ from the values rows are added with
ChangedForm(user_id) ==
    [amount |-> 250, description |-> "e", transaction_type |-> "income",
     date |-> Clock[2],
     category_id |-> CHOOSE c \in category_choices(user_id) :
                        c # BaseForm(user_id).category_id,
     receipt |-> NoFile, notes |-> "n"]

\* forms of the edit specification for edits: no upload
EditForms(user_id) == {BaseForm(user_id), ChangedForm(user_id)}

EditAddSubmissions == [u \in Users |-> Submissions(EditAddForms(u))]
EditSubmissions == [u \in Users |-> Submissions(EditForms(u))]

\* rows with and without receipts, edits that carry no upload, deletes, and
\* the clock
NextEdit ==
    \/ \E u \in Users : \E q \in EditAddSubmissions[u] :
         add_transaction(u, q[1], q[2], q[3])
    \/ \E u \in Users, id \in TxIds :
         \E q \in ForRow(u, id, EditSubmissions[u]) :
            edit_transaction(u, id, q[1], q[2], q[3])
    \/ \E u \in Users, id \in TxIds : delete_transaction(u, id)
    \/ Tick

SpecEdit == Init /\ [][NextEdit]_vars

(* ------------------------------- claims ------------------------------- *)

\* where the original of a receipt reference lives, and the thumbnail that
\* save_receipt_file derives for it
OriginalOf(user_id, ref) == os_path_join(user_upload_dir(user_id), ref)
ThumbnailOf(user_id, ref) == os_path_join(thumb_dir(user_id), thumb_filename(ref))

RefOf(id) == transactions[id].receipt_filename

\* C1: after delete_transaction of a transaction with receipt reference F,
\* neither F's original nor the thumbnail derived for F is on disk, the row is
\* gone and download_receipt for it answers 404.
C1_DeleteRemovesAssetAndThumbnail ==
    [][\A u \in Users, id \in TxIds :
          (owned(id, u) /\ RefOf(id) # None /\ delete_transaction(u, id))
          => /\ OriginalOf(u, RefOf(id)) \notin files'
             /\ ThumbnailOf(u, RefOf(id)) \notin files'
             /\ id \notin DOMAIN transactions'
             /\ (download_receipt_result(u, id))' = "404"]_vars

\* a valid submission that carries an upload
Replaces(user_id, q) == Truthy(q[1].receipt) /\ validate_on_submit(q[1], user_id)

\* C2: after edit_transaction with a new upload on a transaction whose
\* reference is F, F's original and the thumbnail derived for F are off the
\* disk and the new reference differs from F. Stated for an edit whose uuid
\* is not the one in F.
C2_EditRemovesOldAssetAndThumbnail ==
    [][\A u \in Users, id \in TxIds : \A q \in ReceiptSubmissions[u] :
          (/\ owned(id, u) /\ RefOf(id) # None /\ Replaces(u, q)
           /\ RefOf(id)[3] # q[2]
           /\ edit_transaction(u, id, q[1], q[2], q[3]))
          => /\ OriginalOf(u, RefOf(id)) \notin files'
             /\ ThumbnailOf(u, RefOf(id)) \notin files'
             /\ transactions'[id].receipt_filename # RefOf(id)]_vars

\* C3: no two distinct transactions hold the same non-null receipt_filename.
C3_ReferencesAreExclusive ==
    \A i, j \in DOMAIN transactions :
        (i # j /\ RefOf(i) # None) => RefOf(i) # RefOf(j)

\* the claim's reading of an accepted name: the part after the last dot,
\* lowered, is one of png, jpg, jpeg, pdf
HasAllowedExtension(name) ==
    \E k \in 1..Len(name) :
        /\ name[k] = "."
        /\ \A m \in (k + 1)..Len(name) : name[m] # "."
        /\ \E e \in ALLOWED_EXTENSIONS :
              /\ Len(name) - k = Len(e)
              /\ \A m \in 1..Len(e) : LowerChar(name[k + m]) = e[m]

\* C4: save_receipt_file of a name with no extension or an extension outside
\* {png, jpg, jpeg, pdf} returns None and leaves files and directories as
\* they were.
C4_DisallowedNameStoresNothing ==
    \A u \in Users, f \in StoreFiles, h \in Hex, x \in ThumbFaults :
        ~HasAllowedExtension(f.filename)
        => LET saved == save_receipt_file(files, dirs, f, u, h, x)
           IN saved.ret = None /\ saved.files = files /\ saved.dirs = dirs

\* a refused name was handed to save_receipt_file while the disk held files
C4_Witness ==
    /\ resp = Response("save_receipt_file", "none")
    /\ files # {}
    /\ \E f \in StoreFiles : Truthy(f) /\ ~HasAllowedExtension(f.filename)

\* the paths under a thumbnails directory
Thumbnails(fs) == {p \in fs : Len(p.dir) = 2}

\* the claim's reading of an image name: it ends in .png, .jpg or .jpeg
HasImageExtension(name) ==
    /\ HasAllowedExtension(name)
    /\ LowerChar(name[Len(name)]) = "g"

\* C5: a successful save_receipt_file of a png, jpg or jpeg name (any case)
\* leaves an original and a thumbnail; of a pdf, the original and no new
\* thumbnail. Stated for a thumbnail generation that does not fail.
C5_ImageGetsThumbnailPdfDoesNot ==
    [][\A u \in Users, f \in StoreFiles, h \in Hex :
          LET saved == save_receipt_file(files, dirs, f, u, h, "none")
          IN (store(u, f, h, "none") /\ saved.ret # None)
             => /\ OriginalOf(u, saved.ret) \in files'
                /\ HasImageExtension(f.filename)
                     => ThumbnailOf(u, saved.ret) \in files'
                /\ ~HasImageExtension(f.filename)
                     => Thumbnails(files') = Thumbnails(files)]_vars

\* an upload stored as an image whose thumbnail is attempted
IsImageUpload(form) ==
    /\ Truthy(form.receipt)
    /\ allowed_file(form.receipt.filename)
    /\ Lower(splitext(secure_filename(form.receipt.filename)).ext) \in IMAGE_EXTS

\* the name save_receipt_file gives the upload
StoredName(user_id, form, hex) ==
    <<ToString(user_id), "_", hex>> \o splitext(secure_filename(form.receipt.filename)).ext

\* submissions of an allowed image upload whose thumbnail generation fails
FailingThumbnails ==
    [u \in Users |->
        {q \in ReceiptSubmissions[u] :
            IsImageUpload(q[1]) /\ validate_on_submit(q[1], u) /\ q[3] # "none"}]

\* C6: when thumbnail generation fails for an allowed image upload, add and
\* edit still answer with the success redirect, the row holds the generated
\* name and the original is on disk.
C6_ThumbnailFailureIsSwallowed ==
    \A u \in Users : \A q \in FailingThumbnails[u] :
        LET name == StoredName(u, q[1], q[2])
            added == add_transaction_result(u, q[1], q[2], q[3])
        IN /\ added.status = "redirect"
           /\ added.printed
           /\ nextId \in DOMAIN added.transactions
           /\ added.transactions[nextId].receipt_filename = name
           /\ OriginalOf(u, name) \in added.files
           /\ \A id \in rows_of(transactions, u) :
                 LET edited == edit_transaction_result(u, id, q[1], q[2], q[3])
                 IN /\ edited.status = "redirect"
                    /\ edited.printed
                    /\ edited.transactions[id].receipt_filename = name
                    /\ OriginalOf(u, name) \in edited.files

\* a request succeeded and left an image reference whose original is on disk
\* and whose thumbnail is not
C6_Witness ==
    /\ resp.op \in {"add_transaction", "edit_transaction"}
    /\ resp.status = "redirect"
    /\ \E id \in DOMAIN transactions :
          LET u == transactions[id].user_id IN
          /\ RefOf(id) # None
          /\ Lower(splitext(RefOf(id)).ext) \in IMAGE_EXTS
          /\ OriginalOf(u, RefOf(id)) \in files
          /\ ThumbnailOf(u, RefOf(id)) \notin files

\* the removal steps of delete_transaction and of edit_transaction, run twice
RemovedTwice(remove(_, _, _), user_id, ref) ==
    LET once == remove(files, user_id, ref)
        twice == remove(once.files, user_id, ref)
    IN /\ ~once.raised
       /\ ~twice.raised
       /\ twice.files = once.files
       /\ (OriginalOf(user_id, ref) \notin files
           /\ os_path_join(thumb_dir(user_id), ref) \notin files) => once.files = files

\* C7: the removal steps never raise, whether or not the original or the
\* thumbnail exists, and a second run changes nothing.
C7_DeleteIsIdempotent ==
    /\ resp.status # "raised"
    /\ \A u \in Users : \A n \in StoredNames[u] :
          /\ RemovedTwice(remove_receipt_files, u, n)
          /\ RemovedTwice(remove_old_receipt, u, n)

\* the removal steps ran for a name with nothing on disk, other files present
C7_Witness ==
    /\ resp = Response("delete", "absent")
    /\ files # {}

RECURSIVE Weighted(_, _)
\* the total of a set of rows, counted amount by amount
Weighted(ids, amounts) ==
    IF amounts = {} THEN 0
    ELSE LET a == CHOOSE x \in amounts : TRUE
         IN a * Cardinality({i \in ids : transactions[i].amount = a})
            + Weighted(ids, amounts \ {a})

Total(ids) == Weighted(ids, Amounts)

RowsOfType(user_id, type) ==
    {i \in DOMAIN transactions :
        transactions[i].user_id = user_id /\ transactions[i].transaction_type = type}

\* every order in which the rows ids can be listed
Orders(ids) ==
    {o \in [1..Cardinality(ids) -> ids] : \A i, j \in DOMAIN o : i # j => o[i] # o[j]}

\* C8: the balance shown is the user's income total minus the user's expense
\* total over all dates, whatever the order of the rows, other users' rows
\* not counted, and 0 for a user with no rows.
C8_BalanceIsIncomeMinusExpenses ==
    \A u \in Users :
        /\ get_balance(u) = Total(RowsOfType(u, "income")) - Total(RowsOfType(u, "expense"))
        /\ summary_balance(u) = get_balance(u)
        /\ \A o \in Orders(rows_of(transactions, u)) :
              balance_fold(transactions, o) = get_balance(u)
        /\ rows_of(transactions, u) = {} => get_balance(u) = 0

\* a user with an income and an expense row of different amounts, dated in
\* different years
C8_Witness ==
    \E i, j \in DOMAIN transactions :
        /\ transactions[i].user_id = transactions[j].user_id
        /\ transactions[i].transaction_type = "income"
        /\ transactions[j].transaction_type = "expense"
        /\ transactions[i].amount # transactions[j].amount
        /\ transactions[i].date.year # transactions[j].date.year

\* the rows of a user and type dated in month m of year y
Qualifying(user_id, type, m, y) ==
    {i \in RowsOfType(user_id, type) :
        transactions[i].date.month = m /\ transactions[i].date.year = y}

\* C9: monthly income and monthly expenses are the totals of exactly the
\* user's rows of that type whose effective date is in the current month and
\* year, 0 when there is none; the creation time plays no part.
C9_MonthlySummaryIsByEffectiveDate ==
    \A u \in Users :
        /\ monthly_income(u) = Total(Qualifying(u, "income", Clock[now].month, Clock[now].year))
        /\ monthly_expenses(u) = Total(Qualifying(u, "expense", Clock[now].month, Clock[now].year))

\* in February 2024 a user has a row dated in the month but created before
\* it, and a row created in the month but dated in another year
C9_Witness ==
    /\ now = 2
    /\ \E i, j \in DOMAIN transactions :
          /\ transactions[i].user_id = transactions[j].user_id
          /\ transactions[i].transaction_type = transactions[j].transaction_type
          /\ transactions[i].date = Clock[2] /\ transactions[i].created_at = 1
          /\ transactions[j].date.year = 2025 /\ transactions[j].created_at = 2

\* the categories with at least one qualifying expense of the user
SpentCategories(user_id) ==
    {c \in DOMAIN Category :
        \E i \in Qualifying(user_id, "expense", Clock[now].month, Clock[now].year) :
            transactions[i].category_id = c}

InCategory(user_id, c) ==
    {i \in Qualifying(user_id, "expense", Clock[now].month, Clock[now].year) :
        transactions[i].category_id = c}

\* C10: the breakdown has one (name, total) entry for each category with a
\* qualifying expense of the user, none for other categories and none for
\* expenses without a category, which the monthly expense total does include.
C10_BreakdownHasSpentCategoriesOnly ==
    \A u \in Users :
        /\ category_expenses(u) =
              {<<Category[c].name, Total(InCategory(u, c))>> : c \in SpentCategories(u)}
        /\ Cardinality(category_expenses(u)) = Cardinality(SpentCategories(u))
        /\ monthly_expenses(u) =
              Total(UNION {InCategory(u, c) : c \in SpentCategories(u)})
              + Total(InCategory(u, NullCategory))

\* a user has an expense without a category and one with a category, both
\* dated in the current month
C10_Witness ==
    \E u \in Users :
        /\ InCategory(u, NullCategory) # {}
        /\ SpentCategories(u) # {}

Min(a, b) == IF a < b THEN a ELSE b

\* C11: every recent list the dashboard can show for a user holds
\* min(5, n) distinct rows of that user's n rows, in descending order of
\* creation, no row left out having been created after a row shown; and
\* a valid edit of any of the user's rows leaves the possible lists as they are.
C11_RecentListIsLatestCreated ==
    \A u \in Users :
        LET mine == rows_of(transactions, u)
            created(i) == transactions[i].created_at
        IN /\ \A r \in recent_transactions(u) :
                 LET shown == {r[k] : k \in 1..Len(r)}
                 IN /\ Len(r) = Min(RECENT_LIMIT, Cardinality(mine))
                    /\ Cardinality(shown) = Len(r)
                    /\ shown \subseteq mine
                    /\ \A k \in 1..(Len(r) - 1) : created(r[k]) >= created(r[k + 1])
                    /\ \A x \in mine \ shown, y \in shown : created(x) <= created(y)
           /\ \A id \in mine : \A q \in RecentSubmissions[u] :
                 LET o == edit_transaction_result(u, id, q[1], q[2], q[3])
                 IN order_by_created_at_desc(o.transactions,
                                             rows_of(o.transactions, u), RECENT_LIMIT)
                       = recent_transactions(u)

\* user 1 has more rows than the list holds, one of them with a later
\* effective date than a row created after it; the last row made is another
\* user's; an edit has just gone through
C11_Witness ==
    /\ resp = Response("edit_transaction", "redirect")
    /\ Cardinality(rows_of(transactions, 1)) > RECENT_LIMIT
    /\ \E i, j \in rows_of(transactions, 1) :
          /\ transactions[i].created_at < transactions[j].created_at
          /\ transactions[i].date.year > transactions[j].date.year
    /\ \E i \in rows_of(transactions, 2) :
          \A j \in DOMAIN transactions : transactions[j].created_at <= transactions[i].created_at

\* an id no row has
NoSuchId == MaxTx + 1

\* C12: for a row owned by user b and another user a, a's edit_transaction,
\* delete_transaction and download_receipt for the row's id end as they do
\* for an id no row has, in 404, with the table, the files and the
\* directories as they were; a's listing and recent lists hold no row of b.
C12_OtherUsersRowsAreNotFound ==
    \A a \in Users, id \in DOMAIN transactions :
        transactions[id].user_id # a
        => /\ \A q \in ReceiptSubmissions[a] :
                 /\ edit_transaction_result(a, id, q[1], q[2], q[3]) = Unchanged("404")
                 /\ edit_transaction_result(a, id, q[1], q[2], q[3])
                       = edit_transaction_result(a, NoSuchId, q[1], q[2], q[3])
           /\ delete_transaction_result(a, id) = Unchanged("404")
           /\ delete_transaction_result(a, id) = delete_transaction_result(a, NoSuchId)
           /\ download_receipt_result(a, id) = "404"
           /\ download_receipt_result(a, id) = download_receipt_result(a, NoSuchId)
           /\ id \notin transactions_listing(a)
           /\ \A r \in recent_transactions(a) : \A k \in 1..Len(r) : r[k] # id

\* every id a request can name has a row, one of them with a receipt on disk,
\* the rows belong to different users, and a delete request has just been
\* answered with 404: it named a row of the other user
C12_Witness ==
    /\ resp = Response("delete_transaction", "404")
    /\ DOMAIN transactions = TxIds
    /\ \E i, j \in DOMAIN transactions : transactions[i].user_id # transactions[j].user_id
    /\ \E i \in DOMAIN transactions :
          /\ RefOf(i) # None
          /\ OriginalOf(transactions[i].user_id, RefOf(i)) \in files

\* C13: an add_transaction or edit_transaction submission with a missing or
\* too small amount, a missing description, type or date, a type outside
\* {income, expense} or a file name with a disallowed extension changes
\* nothing: the table, the row counter, the files and the directories stay
\* as they were and the form is shown again.
C13_RejectedSubmissionChangesNothing ==
    \A u \in Users : \A f \in InvalidForms(u) : \A h \in Hex, x \in ThumbFaults :
        /\ add_transaction_result(u, f, h, x) = Unchanged("form")
        /\ \A id \in rows_of(transactions, u) :
              edit_transaction_result(u, id, f, h, x) = Unchanged("form")

\* an edit has just been rejected while a row of the table has a receipt on disk
C13_Witness ==
    /\ resp = Response("edit_transaction", "form")
    /\ \E i \in DOMAIN transactions :
          /\ RefOf(i) # None
          /\ OriginalOf(transactions[i].user_id, RefOf(i)) \in files

\* C14: a request whose store of the original fails (os.makedirs or file.save
\* raises, in add_transaction and in the save step of edit_transaction) or
\* whose os.remove of an original that is on disk is refused (in
\* edit_transaction and delete_transaction) ends there with an error, not
\* with the success redirect, and the step leaves the table as it was; the
\* worker is done with the request, so nothing is committed for it later.
C14_StoreAndRemoveFailuresPropagate ==
    [][/\ \A h \in Hex, io \in IoFaults :
             add_transaction(StepUser, StepForm, h, io)
             => /\ resp' = Response("add_transaction", "error")
                /\ transactions' = transactions
       /\ \A w \in Workers : \A h \in Hex, io \in IoFaults :
             save_step(w, h, io)
             => /\ resp' = Response("edit_transaction", "OSError")
                /\ reqs'[w] = Idle
                /\ transactions' = transactions
       /\ \A w \in Workers :
             os_remove_step(w, "denied")
             => /\ resp' = Response(reqs[w].op, "OSError")
                /\ reqs'[w] = Idle
                /\ transactions' = transactions
                /\ files' = files]_vars

\* an edit with a new receipt has just ended in the error of a failed store,
\* after the old original of its row was removed
C14_Witness ==
    /\ resp = Response("edit_transaction", "OSError")
    /\ \E i \in DOMAIN transactions :
          /\ RefOf(i) # None
          /\ OriginalOf(transactions[i].user_id, RefOf(i)) \notin files

\* C15: no download_receipt request for a row of the requester ends in the
\* error of a file that is not there: it ends in a flashed message with a
\* redirect when the row has no reference or the file is not on disk, and
\* in the file being sent otherwise.
C15_DownloadNeverFailsOnMissingAsset ==
    resp.op = "download_receipt"
    => resp.status \in {"404", "no_receipt", "file_not_found", "send_file",
                        crashed_before("check"), crashed_before("send")}

\* a row of table tx names an original that is not among the files fs
Dangling(tx, fs) ==
    \E i \in DOMAIN tx :
        /\ tx[i].receipt_filename # None
        /\ OriginalOf(tx[i].user_id, tx[i].receipt_filename) \notin fs

\* an original among the files fs is named by no row of its user in table tx
Orphaned(tx, fs) ==
    \E p \in fs : \E u \in Users :
        /\ p.dir = user_upload_dir(u)
        /\ \A i \in rows_of(tx, u) : tx[i].receipt_filename # p.name

\* C16: edit_transaction with a new receipt passes through states that a
\* crash or a failed store makes final. Once its os.remove of the old
\* original has run, the committed row names a file that is not on disk;
\* once its save_receipt_file has written a new name that no row holds, an
\* original is on disk that no row names. Both last until the commit.
C16_EditIsNotAtomic ==
    \A w \in Workers :
        LET r == reqs[w] IN
        /\ (/\ r.pc = "remove" /\ r.op = "edit_transaction"
            /\ OriginalOf(r.user_id, r.receipt_filename) \in files
            /\ r.transaction_id \in DOMAIN transactions
            /\ RefOf(r.transaction_id) = r.receipt_filename)
           => LET removed == edit_remove(files, r.user_id, r.receipt_filename, "none")
              IN ~removed.raised /\ Dangling(transactions, removed.files)
        /\ (r.pc = "save")
           => \A h \in Hex :
                 LET saved == save_receipt_file(files, dirs, r.form.receipt, r.user_id,
                                                h, "none")
                 IN (\A i \in rows_of(transactions, r.user_id) : RefOf(i) # saved.ret)
                    => ~saved.raised /\ Orphaned(transactions, saved.files)

\* no request is running; the last one was an edit that had removed the old
\* original and stored the new one and died before its commit; the one file
\* on disk is named by no row and a row names a file that is not on disk
C16_Witness ==
    /\ reqs = NoRequests
    /\ resp = Response("edit_transaction", crashed_before("commit"))
    /\ Cardinality(files) = 1
    /\ Dangling(transactions, files)
    /\ Orphaned(transactions, files)

\* C17: when deletes and at most one edit with a new receipt at a time run
\* interleaved, no request ends in the exception of a file or a row that
\* another request removed in the meantime (FileNotFoundError from os.remove,
\* StaleDataError from the commit).
C17_ConcurrentRemovalsAreHandled ==
    resp.op \in {"delete_transaction", "edit_transaction"}
    => resp.status \notin {"FileNotFoundError", "StaleDataError"}

\* the extension of a supplied name: from its last dot to its end
OriginalExtension(name) == SubSeq(name, LastIndexOf(name, "."), Len(name))

\* C18: for every name allowed_file accepts, save_receipt_file returns
\* str(user_id), "_", the hex digits and the extension of the supplied name,
\* that extension being one of png, jpg, jpeg and pdf in any case; the name
\* has no path separator, and the file is written under the user's directory.
C18_StoredNameKeepsExtension ==
    \A u \in Users, f \in StoreFiles, h \in Hex :
        (Truthy(f) /\ allowed_file(f.filename))
        => LET saved == save_receipt_file(files, dirs, f, u, h, "none")
               ext == OriginalExtension(f.filename)
           IN /\ saved.ret = <<ToString(u), "_", h>> \o ext
              /\ Lower(SubSeq(ext, 2, Len(ext))) \in ALLOWED_EXTENSIONS
              /\ \A k \in 1..Len(saved.ret) : saved.ret[k] # "/"
              /\ os_path_join(user_upload_dir(u), saved.ret) \in saved.files

\* C19: after any sequence of add_transaction, edit_transaction and
\* delete_transaction requests run one at a time, every receipt_filename that
\* is set names an original on disk in its owner's directory, and every
\* original in a user's directory is named by exactly one row of that user.
C19_ReferencesAndOriginalsMatch ==
    /\ ~Dangling(transactions, files)
    /\ \A p \in files : \A u \in Users :
          p.dir = user_upload_dir(u)
          => Cardinality({i \in rows_of(transactions, u) : RefOf(i) = p.name}) = 1

\* C20: a valid edit_transaction submission with no upload sets the row's
\* amount, description, type, date, category and notes to the form's and
\* leaves its receipt_filename, created_at and user_id, every other row, the
\* row counter, the files and the directories as they were.
C20_EditWithoutUploadKeepsReceipt ==
    \A u \in Users : \A id \in rows_of(transactions, u) : \A q \in EditSubmissions[u] :
        LET o == edit_transaction_result(u, id, q[1], q[2], q[3])
            old == transactions[id]
            new == o.transactions[id]
        IN /\ o.status = "redirect"
           /\ DOMAIN o.transactions = DOMAIN transactions
           /\ new.amount = q[1].amount
           /\ new.description = q[1].description
           /\ new.transaction_type = q[1].transaction_type
           /\ new.date = q[1].date
           /\ new.category_id = q[1].category_id
           /\ new.notes = q[1].notes
           /\ new.receipt_filename = old.receipt_filename
           /\ new.created_at = old.created_at
           /\ new.user_id = old.user_id
           /\ \A j \in DOMAIN transactions \ {id} : o.transactions[j] = transactions[j]
           /\ o.nextId = nextId
           /\ o.files = files
           /\ o.dirs = dirs

\* an edit with no upload has changed the fields of a row made earlier whose
\* receipt is on disk, with another row in the table
C20_Witness ==
    /\ resp = Response("edit_transaction", "redirect")
    /\ \E i, j \in DOMAIN transactions :
          /\ i # j
          /\ transactions[i].amount = 250
          /\ transactions[i].created_at < now
          /\ RefOf(i) # None
          /\ OriginalOf(transactions[i].user_id, RefOf(i)) \in files

=============================================================================
